---- MODULE Spec2Model ----
(***************************************************************************)
(* A model of novaguestclient/cli/utils.py: the storage-mapping argument   *)
(* splitters and their argparse registration, the storage-mappings dict    *)
(* builder and parser, the JSON option resolver and the user-scripts       *)
(* composer.                                                               *)
(*                                                                         *)
(* Python values are tagged records (None, str, list, dict, bool, int,     *)
(* file); a str is a sequence of one-character strings, so that split and  *)
(* strip are computed character by character.                              *)
(***************************************************************************)
EXTENDS Integers, Sequences, FiniteSets, TLC

VARIABLES
    pc,                \* the step the program is at
    argv,              \* the flag occurrences argparse has consumed
    args,              \* the argparse namespace
    storage_mappings,  \* the 'storage_mappings' dict (built here or from the API)
    parsed,            \* the outcome of parse_storage_mappings
    split_out,         \* the outcomes of the two splitters on one token
    gov,               \* the locals of get_option_value_from_args
    fh,                \* the file object argparse.FileType opened
    cus,               \* the locals of compose_user_scripts
    open_files,        \* script files opened and not yet closed
    opened             \* every path compose_user_scripts has opened, in order

storageVars == <<argv, args, storage_mappings, parsed, split_out>>
govVars == <<gov, fh>>
cusVars == <<cus, open_files, opened>>

vars == <<pc, argv, args, storage_mappings, parsed, split_out,
          gov, fh, cus, open_files, opened>>

-----------------------------------------------------------------------------
(* Bounds of the model.                                                    *)

\* longest token handed to a splitter on its own
MaxTokLen == 5
\* most flag occurrences on one command line
MaxArgs == 3

-----------------------------------------------------------------------------
(* Python values.                                                          *)

None == [tag |-> "None"]
Str(s) == [tag |-> "str", v |-> s]
List(l) == [tag |-> "list", v |-> l]
Dict(d) == [tag |-> "dict", v |-> d]
BoolV(b) == [tag |-> "bool", v |-> b]
IntV(n) == [tag |-> "int", v |-> n]
Unset == [tag |-> "unset"]

EmptyDict == [k \in {} |-> None]

\* a test for None in place of the truth value
TruthyNoEmptyCheck(x) == x.tag /= "None"

\* Python's truth value of an object: None, "", [], {}, False and 0 are false.
Truthy(x) ==
    CASE x.tag = "None" -> FALSE
      [] x.tag = "str"  -> Len(x.v) > 0
      [] x.tag = "list" -> Len(x.v) > 0
      [] x.tag = "dict" -> DOMAIN x.v /= {}
      [] x.tag = "bool" -> x.v
      [] x.tag = "int"  -> x.v /= 0
      [] OTHER          -> TRUE

\* d[k] = v on a dict held as a function
DictSet(d, k, v) == [x \in (DOMAIN d) \cup {k} |-> IF x = k THEN v ELSE d[x]]

\* d.get(k, dflt)
DictGet(d, k, dflt) == IF k \in DOMAIN d THEN d[k] ELSE dflt

-----------------------------------------------------------------------------
(* Strings.                                                                *)

Char == {"a", "b", "=", "'", "\""}
QuoteChars == {"'", "\""}

StringsUpTo(n) == UNION {[1..k -> Char] : k \in 0..n}

Tokens == StringsUpTo(MaxTokLen)

\* index of the first sep in s, 0 when there is none
FirstIndex(s, sep) ==
    IF \E i \in 1..Len(s) : s[i] = sep
    THEN CHOOSE i \in 1..Len(s) : s[i] = sep /\ \A j \in 1..(i - 1) : s[j] /= sep
    ELSE 0

\* str.split(sep, maxsplit): maxsplit < 0 splits at every sep
RECURSIVE Split(_, _, _)
Split(s, sep, maxsplit) ==
    LET i == FirstIndex(s, sep) IN
    IF i = 0 \/ maxsplit = 0
    THEN <<s>>
    ELSE <<SubSeq(s, 1, i - 1)>> \o Split(SubSeq(s, i + 1, Len(s)), sep, maxsplit - 1)

\* str.lstrip(chars), str.rstrip(chars), str.strip(chars)
RECURSIVE LStrip(_, _)
LStrip(s, chars) ==
    IF Len(s) > 0 /\ s[1] \in chars THEN LStrip(Tail(s), chars) ELSE s

RECURSIVE RStrip(_, _)
RStrip(s, chars) ==
    IF Len(s) > 0 /\ s[Len(s)] \in chars
    THEN RStrip(SubSeq(s, 1, Len(s) - 1), chars)
    ELSE s

\* lstrip in place of strip
StripLeftOnly(s, chars) == LStrip(s, chars)

Strip(s, chars) == RStrip(LStrip(s, chars), chars)

-----------------------------------------------------------------------------
(* add_storage_mappings_arguments_to_parser: the two type= converters.     *)

\* the outcome of a call: a returned value or a raised exception
Return(v) == [raised |-> FALSE, value |-> v]
Raise(kind, msg) == [raised |-> TRUE, error |-> kind, msg |-> msg]

\* split('=', 1) in place of split('='): a second '=' stays in the destination
split_disk_arg_first_eq(arg) ==
    LET parts == Split(arg, "=", 1) IN
    IF Len(parts) /= 2
    THEN Raise("ValueError", "unpack")
    ELSE Return([disk_id |-> Strip(parts[1], QuoteChars),
                 destination |-> Strip(parts[2], QuoteChars)])

\* disk_id, dest = arg.split('='): unpacking anything but two parts raises
split_disk_arg(arg) ==
    LET parts == Split(arg, "=", -1) IN
    IF Len(parts) /= 2
    THEN Raise("ValueError", "unpack")
    ELSE Return([disk_id |-> Strip(parts[1], QuoteChars),
                 destination |-> Strip(parts[2], QuoteChars)])

split_backend_arg(arg) ==
    LET parts == Split(arg, "=", -1) IN
    IF Len(parts) /= 2
    THEN Raise("ValueError", "unpack")
    ELSE Return([source |-> Strip(parts[1], QuoteChars),
                 destination |-> Strip(parts[2], QuoteChars)])

-----------------------------------------------------------------------------
(* argparse, as configured by add_storage_mappings_arguments_to_parser.    *)

\* a fresh argparse.Namespace: every dest starts as None
EmptyNamespace ==
    [default_storage_backend |-> None,
     disk_storage_mappings |-> None,
     storage_backend_mappings |-> None]

\* tokens given to the repeatable flags on a command line
ArgvTokens ==
    { <<"a", "=", "a">>, <<"a", "=", "b">>, <<"b", "=", "a">>,
      <<"'", "a", "'", "=", "\"", "b">>, <<"=">>,
      <<"a">>, <<>>, <<"a", "=", "b", "=", "a">> }

\* values given to --default-storage-backend
DefaultValues == { <<>>, <<"a">>, <<"b">> }

\* action='append': items = copy(getattr(namespace, dest) or []); items.append(v)
Appended(cur, item) ==
    IF cur.tag = "None" THEN List(<<item>>) ELSE List(Append(cur.v, item))

-----------------------------------------------------------------------------
(* get_storage_mappings_dict_from_args and parse_storage_mappings.         *)

get_storage_mappings_dict_from_args(a) ==
    LET m0 == EmptyDict
        m1 == IF Truthy(a.default_storage_backend)
              THEN DictSet(m0, "default", a.default_storage_backend)
              ELSE m0
        m2 == IF Truthy(a.disk_storage_mappings)
              THEN DictSet(m1, "disk_mappings", a.disk_storage_mappings)
              ELSE m1
        m3 == IF Truthy(a.storage_backend_mappings)
              THEN DictSet(m2, "backend_mappings", a.storage_backend_mappings)
              ELSE m2
    IN Dict(m3)

\* a comprehension that keeps the first entry of a key
RECURSIVE MappingDictFirstWins(_, _, _)
MappingDictFirstWins(lst, key, acc) ==
    IF lst = <<>>
    THEN acc
    ELSE MappingDictFirstWins(Tail(lst), key,
            IF Head(lst)[key] \in DOMAIN acc
            THEN acc
            ELSE DictSet(acc, Head(lst)[key], Head(lst).destination))

\* {mapping[key]: mapping['destination'] for mapping in lst}, built in list order
RECURSIVE MappingDict(_, _, _)
MappingDict(lst, key, acc) ==
    IF lst = <<>>
    THEN acc
    ELSE MappingDict(Tail(lst), key,
                     DictSet(acc, Head(lst)[key], Head(lst).destination))

\* the last two members of the returned tuple in the other order
parse_storage_mappings_swapped(sm) ==
    IF sm.tag = "None"
    THEN Return(<<None, Dict(EmptyDict), Dict(EmptyDict)>>)
    ELSE Return(<<DictGet(sm.v, "default", None),
                  Dict(MappingDict(DictGet(sm.v, "disk_mappings", List(<<>>)).v,
                                   "disk_id", EmptyDict)),
                  Dict(MappingDict(DictGet(sm.v, "backend_mappings", List(<<>>)).v,
                                   "source", EmptyDict))>>)

parse_storage_mappings(sm) ==
    IF sm.tag = "None"
    THEN Return(<<None, Dict(EmptyDict), Dict(EmptyDict)>>)
    ELSE LET backend_mappings ==
                 MappingDict(DictGet(sm.v, "backend_mappings", List(<<>>)).v,
                             "source", EmptyDict)
             disk_mappings ==
                 MappingDict(DictGet(sm.v, "disk_mappings", List(<<>>)).v,
                             "disk_id", EmptyDict)
         IN Return(<<DictGet(sm.v, "default", None),
                     Dict(backend_mappings), Dict(disk_mappings)>>)

-----------------------------------------------------------------------------
(* Values of the 'storage_mappings' API field.                             *)

\* most entries in a mapping list of an API response
MaxList == 2

Names == { <<"a">>, <<"b">> }
BackendEntries == [source : Names, destination : Names]
DiskEntries == [disk_id : Names, destination : Names]

SeqsUpTo(S, n) == UNION {[1..k -> S] : k \in 0..n}

\* a dict with any subset of the three keys; 'default' may be null
ApiMappingDicts ==
    { [k \in ks |-> CASE k = "default" -> d
                      [] k = "backend_mappings" -> List(bl)
                      [] OTHER -> List(dl)] :
        ks \in SUBSET {"default", "backend_mappings", "disk_mappings"},
        d \in {None, Str(<<"a">>)},
        bl \in SeqsUpTo(BackendEntries, MaxList),
        dl \in SeqsUpTo(DiskEntries, MaxList) }

-----------------------------------------------------------------------------
(* get_option_value_from_args.                                             *)

File == [tag |-> "file"]

\* texts given with --option-name or held by the file of --option-name-file
JsonTexts ==
    { <<"{", "}">>, <<"[", "]">>, <<"0">>, <<"1">>,
      <<"f", "a", "l", "s", "e">>, <<"t", "r", "u", "e">>,
      <<"n", "u", "l", "l">>, <<"\"", "\"">>, <<"\"", "a", "\"">>,
      <<"[", "0", "]">>, <<"{", "\"", "a", "\"", ":", "1", "}">> }
BadTexts == { <<"{">>, <<"a">>, <<" ">>, <<"n", "u", "l">> }
RawTexts == JsonTexts \cup BadTexts \cup { <<>> }

\* json.loads on the texts above
json_loads(text) ==
    CASE text = <<"{", "}">> -> Return(Dict(EmptyDict))
      [] text = <<"[", "]">> -> Return(List(<<>>))
      [] text = <<"0">> -> Return(IntV(0))
      [] text = <<"1">> -> Return(IntV(1))
      [] text = <<"f", "a", "l", "s", "e">> -> Return(BoolV(FALSE))
      [] text = <<"t", "r", "u", "e">> -> Return(BoolV(TRUE))
      [] text = <<"n", "u", "l", "l">> -> Return(None)
      [] text = <<"\"", "\"">> -> Return(Str(<<>>))
      [] text = <<"\"", "a", "\"">> -> Return(Str(<<"a">>))
      [] text = <<"[", "0", "]">> -> Return(List(<<IntV(0)>>))
      [] text = <<"{", "\"", "a", "\"", ":", "1", "}">> ->
            Return(Dict([k \in {<<"a">>} |-> IntV(1)]))
      [] OTHER -> Raise("ValueError", "JSONDecodeError")

\* the branch taken at 'if raw_arg: ... elif file_arg: ...'
ResolveBranch(raw_arg, file_arg) ==
    IF Truthy(raw_arg) THEN "raw"
    ELSE IF Truthy(file_arg) THEN "file"
    ELSE "none"

\* a read outside any with block
WithExitLeavesOpen(f) == f

\* leaving 'with file_arg as fin:' closes the file object
WithExit(f) == [f EXCEPT !.closed = TRUE]

\* a final check that ignores error_on_no_value
FinalCheckNeverRaises(value, error_on_no_value) == Return(value)

\* 'if not value and error_on_no_value:' raises, else the value is returned
FinalCheck(value, error_on_no_value) ==
    IF ~Truthy(value) /\ error_on_no_value
    THEN Raise("ValueError", "No parameter was provided")
    ELSE Return(value)

-----------------------------------------------------------------------------
(* compose_user_scripts.                                                   *)

\* most tokens in global_scripts and instance_scripts together
MaxScripts == 3

Linux == <<"l", "i", "n", "u", "x">>
Windows == <<"w", "i", "n", "d", "o", "w", "s">>
Bogus == <<"b", "o", "g", "u", "s">>

\* constants.OS_LIST
OS_LIST == { Linux, Windows }

PathF == <<"/", "f">>
PathG == <<"/", "g">>
PathEq == <<"/", "h", "=", "1">>
PathMissing == <<"/", "n", "o">>

\* the files on disk and their contents
Files == [p \in {PathF, PathG, PathEq} |->
            CASE p = PathF -> <<"A">>
              [] p = PathG -> <<"B">>
              [] OTHER -> <<"C">>]

\* os.path.isfile
isfile(path) == path \in DOMAIN Files

ScriptTokens ==
    { Linux \o <<"=">> \o PathF,
      Linux \o <<"=">> \o PathG,
      Windows \o <<"=">> \o PathF,
      Linux \o <<"=">> \o PathMissing,
      Bogus \o <<"=">> \o PathF,
      Bogus \o <<"=">> \o PathMissing,
      Linux,
      Linux \o <<"=">> \o PathEq }

\* x or []
OrEmptyList(x) == IF Truthy(x) THEN x ELSE List(<<>>)

\* token.split("=")
SplitScriptEvery(token) == Split(token, "=", -1)

\* token.split("=", 1)
SplitScript(token) == Split(token, "=", 1)

\* the file check made before the OS check
CheckScriptFileFirst(split, check_os) ==
    IF Len(split) /= 2 THEN [do |-> "skip"]
    ELSE IF ~isfile(split[2])
    THEN [do |-> "raise", exc |-> Raise("ValueError", <<"Could not find", split[2]>>)]
    ELSE IF check_os /\ split[1] \notin OS_LIST
    THEN [do |-> "raise", exc |-> Raise("ValueError", <<"Invalid OS", split[1]>>)]
    ELSE [do |-> "open"]

\* the checks made on a split token before its file is opened:
\* "skip", an exception, or "open"
CheckScript(split, check_os) ==
    IF Len(split) /= 2 THEN [do |-> "skip"]
    ELSE IF check_os /\ split[1] \notin OS_LIST
    THEN [do |-> "raise", exc |-> Raise("ValueError", <<"Invalid OS", split[1]>>)]
    ELSE IF ~isfile(split[2])
    THEN [do |-> "raise", exc |-> Raise("ValueError", <<"Could not find", split[2]>>)]
    ELSE [do |-> "open"]

\* leaving 'with open(...) as sc:' closes the file
CloseScript(files, path) == files \ {path}

-----------------------------------------------------------------------------
Init ==
    /\ pc = "start"
    /\ argv = <<>>
    /\ args = Unset
    /\ storage_mappings = Unset
    /\ parsed = Unset
    /\ split_out = Unset
    /\ gov = Unset
    /\ fh = Unset
    /\ cus = Unset
    /\ open_files = {}
    /\ opened = <<>>

\* one token converted by both splitters, as argparse calls them
SplitArg ==
    /\ pc = "start"
    /\ \E tok \in Tokens :
         split_out' = [arg |-> tok,
                       disk |-> split_disk_arg(tok),
                       backend |-> split_backend_arg(tok)]
    /\ pc' = "split_done"
    /\ UNCHANGED <<argv, args, storage_mappings, parsed, govVars, cusVars>>

\* parse_args starts on a fresh namespace
ParseArgsBegin ==
    /\ pc = "start"
    /\ args' = EmptyNamespace
    /\ pc' = "parse_args"
    /\ UNCHANGED <<argv, storage_mappings, parsed, split_out, govVars, cusVars>>

\* --default-storage-backend VALUE: the default 'store' action
ParseDefaultStorageBackend ==
    /\ pc = "parse_args"
    /\ Len(argv) < MaxArgs
    /\ \E v \in DefaultValues :
         /\ argv' = Append(argv, [flag |-> "default", token |-> v])
         /\ args' = [args EXCEPT !.default_storage_backend = Str(v)]
    /\ UNCHANGED <<pc, storage_mappings, parsed, split_out, govVars, cusVars>>

\* --disk-storage-mapping TOKEN: type=_split_disk_arg, action='append';
\* a ValueError of the converter is a usage error and the parser exits
ParseDiskStorageMapping ==
    /\ pc = "parse_args"
    /\ Len(argv) < MaxArgs
    /\ \E tok \in ArgvTokens :
         LET r == split_disk_arg(tok) IN
         /\ argv' = Append(argv, [flag |-> "disk", token |-> tok])
         /\ IF r.raised
            THEN pc' = "usage_error" /\ UNCHANGED args
            ELSE /\ pc' = pc
                 /\ args' = [args EXCEPT !.disk_storage_mappings =
                                Appended(args.disk_storage_mappings, r.value)]
    /\ UNCHANGED <<storage_mappings, parsed, split_out, govVars, cusVars>>

\* --storage-backend-mapping TOKEN: type=_split_backend_arg, action='append'
ParseStorageBackendMapping ==
    /\ pc = "parse_args"
    /\ Len(argv) < MaxArgs
    /\ \E tok \in ArgvTokens :
         LET r == split_backend_arg(tok) IN
         /\ argv' = Append(argv, [flag |-> "backend", token |-> tok])
         /\ IF r.raised
            THEN pc' = "usage_error" /\ UNCHANGED args
            ELSE /\ pc' = pc
                 /\ args' = [args EXCEPT !.storage_backend_mappings =
                                Appended(args.storage_backend_mappings, r.value)]
    /\ UNCHANGED <<storage_mappings, parsed, split_out, govVars, cusVars>>

\* the command line is exhausted
ParseArgsEnd ==
    /\ pc = "parse_args"
    /\ pc' = "parsed"
    /\ UNCHANGED <<argv, args, storage_mappings, parsed, split_out, govVars, cusVars>>

\* a caller that fills the namespace itself: attributes absent, empty, or
\* lists it built, one of them with a repeated disk_id / source
CallerNamespace ==
    /\ pc = "start"
    /\ \E d \in {None, Str(<<"a">>)},
          dl \in {None, List(<<>>),
                  List(<<[disk_id |-> <<"a">>, destination |-> <<"b">>]>>),
                  List(<<[disk_id |-> <<"a">>, destination |-> <<"a">>],
                         [disk_id |-> <<"a">>, destination |-> <<"b">>]>>)},
          bl \in {None, List(<<>>),
                  List(<<[source |-> <<"a">>, destination |-> <<"b">>]>>),
                  List(<<[source |-> <<"b">>, destination |-> <<"b">>],
                         [source |-> <<"b">>, destination |-> <<"a">>]>>)} :
         args' = [default_storage_backend |-> d,
                  disk_storage_mappings |-> dl,
                  storage_backend_mappings |-> bl]
    /\ pc' = "parsed"
    /\ UNCHANGED <<argv, storage_mappings, parsed, split_out, govVars, cusVars>>

GetStorageMappingsDictFromArgs ==
    /\ pc = "parsed"
    /\ storage_mappings' = get_storage_mappings_dict_from_args(args)
    /\ pc' = "have_mappings"
    /\ UNCHANGED <<argv, args, parsed, split_out, govVars, cusVars>>

\* the 'storage_mappings' field of an API object, which is nullable
ApiStorageMappings ==
    /\ pc = "start"
    /\ \E sm \in {None} \cup {Dict(d) : d \in ApiMappingDicts} :
         storage_mappings' = sm
    /\ pc' = "have_mappings"
    /\ UNCHANGED <<argv, args, parsed, split_out, govVars, cusVars>>

ParseStorageMappings ==
    /\ pc = "have_mappings"
    /\ parsed' = parse_storage_mappings(storage_mappings)
    /\ pc' = "mappings_done"
    /\ UNCHANGED <<argv, args, storage_mappings, split_out, govVars, cusVars>>

-----------------------------------------------------------------------------
(* get_option_value_from_args, statement by statement.                     *)

\* the call: args holds the raw text (or None) and the file object (or None)
\* that argparse.FileType('r') opened
CallGetOptionValue ==
    /\ pc = "start"
    /\ \E raw \in {None} \cup {Str(t) : t \in RawTexts},
          content \in {None} \cup {Str(t) : t \in RawTexts},
          eonv \in BOOLEAN :
         /\ gov' = [raw_arg |-> raw,
                    file_arg |-> IF content = None THEN None ELSE File,
                    error_on_no_value |-> eonv,
                    value |-> None,
                    raw_value |-> None,
                    loads_calls |-> 0,
                    outcome |-> Unset]
         /\ fh' = IF content = None
                  THEN Unset
                  ELSE [tag |-> "handle", content |-> content,
                        closed |-> FALSE, reads |-> 0]
    /\ pc' = "gov_resolve"
    /\ UNCHANGED <<storageVars, cusVars>>

\* if raw_arg: raw_value = raw_arg / elif file_arg: with file_arg as fin:
GovResolve ==
    /\ pc = "gov_resolve"
    /\ LET b == ResolveBranch(gov.raw_arg, gov.file_arg) IN
         /\ gov' = IF b = "raw" THEN [gov EXCEPT !.raw_value = gov.raw_arg] ELSE gov
         /\ pc' = IF b = "file" THEN "gov_with" ELSE "gov_parse"
    /\ UNCHANGED <<fh, storageVars, cusVars>>

\* raw_value = fin.read()
GovRead ==
    /\ pc = "gov_with"
    /\ gov' = [gov EXCEPT !.raw_value = fh.content]
    /\ fh' = [fh EXCEPT !.reads = fh.reads + 1]
    /\ pc' = "gov_with_exit"
    /\ UNCHANGED <<storageVars, cusVars>>

\* the end of the with block
GovWithExit ==
    /\ pc = "gov_with_exit"
    /\ fh' = WithExit(fh)
    /\ pc' = "gov_parse"
    /\ UNCHANGED <<gov, storageVars, cusVars>>

\* if not value and raw_value: value = json.loads(raw_value), a ValueError of
\* which is raised again as a ValueError naming the option
GovParse ==
    /\ pc = "gov_parse"
    /\ IF ~Truthy(gov.value) /\ Truthy(gov.raw_value)
       THEN LET r == json_loads(gov.raw_value.v) IN
            IF r.raised
            THEN /\ gov' = [gov EXCEPT
                              !.loads_calls = gov.loads_calls + 1,
                              !.outcome = Raise("ValueError", "Error while parsing")]
                 /\ pc' = "gov_done"
            ELSE /\ gov' = [gov EXCEPT
                              !.loads_calls = gov.loads_calls + 1,
                              !.value = r.value]
                 /\ pc' = "gov_check"
       ELSE /\ pc' = "gov_check"
            /\ UNCHANGED gov
    /\ UNCHANGED <<fh, storageVars, cusVars>>

\* if not value and error_on_no_value: raise ValueError(...) / return value
GovCheck ==
    /\ pc = "gov_check"
    /\ gov' = [gov EXCEPT !.outcome = FinalCheck(gov.value, gov.error_on_no_value)]
    /\ pc' = "gov_done"
    /\ UNCHANGED <<fh, storageVars, cusVars>>

-----------------------------------------------------------------------------
(* compose_user_scripts, statement by statement.                           *)

\* the call, up to the first loop: ret = {...}; x = x or []
CallComposeUserScripts ==
    /\ pc = "start"
    /\ \E n \in 0..MaxScripts :
         \E m \in 0..(MaxScripts - n) :
           \E gs \in [1..n -> ScriptTokens], is \in [1..m -> ScriptTokens] :
             \E g \in (IF n = 0 THEN {None, List(<<>>)} ELSE {List(gs)}),
                i \in (IF m = 0 THEN {None, List(<<>>)} ELSE {List(is)}) :
               cus' = [global_arg |-> g,
                       instance_arg |-> i,
                       global_scripts |-> OrEmptyList(g),
                       instance_scripts |-> OrEmptyList(i),
                       idx |-> 1,
                       ret |-> [global |-> EmptyDict, instances |-> EmptyDict],
                       outcome |-> Unset]
    /\ pc' = "cus_global"
    /\ UNCHANGED <<open_files, opened, storageVars, govVars>>

\* one turn of 'for glb in global_scripts:' up to 'with open(split[1]) as sc:'
CusGlobal ==
    /\ pc = "cus_global"
    /\ IF cus.idx > Len(cus.global_scripts.v)
       THEN /\ pc' = "cus_instances"
            /\ cus' = [cus EXCEPT !.idx = 1]
            /\ UNCHANGED <<open_files, opened>>
       ELSE LET split == SplitScript(cus.global_scripts.v[cus.idx])
                c == CheckScript(split, TRUE)
            IN CASE c.do = "skip" ->
                      /\ cus' = [cus EXCEPT !.idx = cus.idx + 1]
                      /\ UNCHANGED <<pc, open_files, opened>>
                 [] c.do = "raise" ->
                      /\ cus' = [cus EXCEPT !.outcome = c.exc]
                      /\ pc' = "cus_done"
                      /\ UNCHANGED <<open_files, opened>>
                 [] OTHER ->
                      /\ open_files' = open_files \cup {split[2]}
                      /\ opened' = Append(opened, split[2])
                      /\ pc' = "cus_global_with"
                      /\ UNCHANGED cus
    /\ UNCHANGED <<storageVars, govVars>>

\* ret["global"][split[0]] = sc.read(), and the end of the with block
CusGlobalRead ==
    /\ pc = "cus_global_with"
    /\ LET split == SplitScript(cus.global_scripts.v[cus.idx]) IN
         /\ cus' = [cus EXCEPT
                      !.ret.global = DictSet(cus.ret.global, split[1], Files[split[2]]),
                      !.idx = cus.idx + 1]
         /\ open_files' = CloseScript(open_files, split[2])
    /\ pc' = "cus_global"
    /\ UNCHANGED <<opened, storageVars, govVars>>

\* one turn of 'for inst in instance_scripts:', and 'return ret' after the last
CusInstances ==
    /\ pc = "cus_instances"
    /\ IF cus.idx > Len(cus.instance_scripts.v)
       THEN /\ pc' = "cus_done"
            /\ cus' = [cus EXCEPT !.outcome = Return(cus.ret)]
            /\ UNCHANGED <<open_files, opened>>
       ELSE LET split == SplitScript(cus.instance_scripts.v[cus.idx])
                c == CheckScript(split, FALSE)
            IN CASE c.do = "skip" ->
                      /\ cus' = [cus EXCEPT !.idx = cus.idx + 1]
                      /\ UNCHANGED <<pc, open_files, opened>>
                 [] c.do = "raise" ->
                      /\ cus' = [cus EXCEPT !.outcome = c.exc]
                      /\ pc' = "cus_done"
                      /\ UNCHANGED <<open_files, opened>>
                 [] OTHER ->
                      /\ open_files' = open_files \cup {split[2]}
                      /\ opened' = Append(opened, split[2])
                      /\ pc' = "cus_instances_with"
                      /\ UNCHANGED cus
    /\ UNCHANGED <<storageVars, govVars>>

\* ret["instances"][split[0]] = sc.read(), and the end of the with block
CusInstancesRead ==
    /\ pc = "cus_instances_with"
    /\ LET split == SplitScript(cus.instance_scripts.v[cus.idx]) IN
         /\ cus' = [cus EXCEPT
                      !.ret.instances = DictSet(cus.ret.instances, split[1], Files[split[2]]),
                      !.idx = cus.idx + 1]
         /\ open_files' = CloseScript(open_files, split[2])
    /\ pc' = "cus_instances"
    /\ UNCHANGED <<opened, storageVars, govVars>>

Next ==
    \/ SplitArg
    \/ ParseArgsBegin
    \/ ParseDefaultStorageBackend
    \/ ParseDiskStorageMapping
    \/ ParseStorageBackendMapping
    \/ ParseArgsEnd
    \/ CallerNamespace
    \/ GetStorageMappingsDictFromArgs
    \/ ApiStorageMappings
    \/ ParseStorageMappings
    \/ CallGetOptionValue
    \/ GovResolve
    \/ GovRead
    \/ GovWithExit
    \/ GovParse
    \/ GovCheck
    \/ CallComposeUserScripts
    \/ CusGlobal
    \/ CusGlobalRead
    \/ CusInstances
    \/ CusInstancesRead

Spec == Init /\ [][Next]_vars

-----------------------------------------------------------------------------
(* Properties.                                                             *)

\* the number of '=' in a token
CountEq(s) == Cardinality({i \in 1..Len(s) : s[i] = "="})

\* the text left and right of the first '=' of a token that has one
LeftOfEq(s) == SubSeq(s, 1, FirstIndex(s, "=") - 1)
RightOfEq(s) == SubSeq(s, FirstIndex(s, "=") + 1, Len(s))

\* r is s without the quote characters at its two ends, nothing else changed
IsStripOf(r, s) ==
    /\ \E a \in 0..Len(s) : \E b \in 0..(Len(s) - a) :
         /\ r = SubSeq(s, a + 1, Len(s) - b)
         /\ \A k \in 1..a : s[k] \in QuoteChars
         /\ \A k \in (Len(s) - b + 1)..Len(s) : s[k] \in QuoteChars
    /\ r /= <<>> => r[1] \notin QuoteChars /\ r[Len(r)] \notin QuoteChars

\* the entry a splitter must yield for a token with exactly one '='
IsEntryOf(e, keyname, tok) ==
    /\ DOMAIN e = {keyname, "destination"}
    /\ IsStripOf(e[keyname], LeftOfEq(tok))
    /\ IsStripOf(e.destination, RightOfEq(tok))

\* the flag occurrences argparse accepted: all but the one that ended in a
\* usage error
AcceptedArgv ==
    IF pc = "usage_error" THEN SubSeq(argv, 1, Len(argv) - 1) ELSE argv

IsFlag(a, flag) == a.flag = flag
DiskArgv == SelectSeq(AcceptedArgv, LAMBDA a : IsFlag(a, "disk"))
BackendArgv == SelectSeq(AcceptedArgv, LAMBDA a : IsFlag(a, "backend"))

\* a namespace list holds one entry per accepted occurrence, in order
ListMatchesArgv(lst, occ, keyname) ==
    IF occ = <<>>
    THEN lst = None
    ELSE /\ lst.tag = "list"
         /\ Len(lst.v) = Len(occ)
         /\ \A i \in 1..Len(occ) : IsEntryOf(lst.v[i], keyname, occ[i].token)

\* C4: a mapping token is accepted exactly when it holds exactly one '=': a
\* token with none or several is rejected with a usage error and appends
\* nothing, and each accepted token appends one entry to its list, in the
\* order of the occurrences.
C4_TokenAcceptedIffOneEq ==
    /\ pc = "split_done" =>
         /\ split_out.disk.raised <=> CountEq(split_out.arg) /= 1
         /\ split_out.backend.raised <=> CountEq(split_out.arg) /= 1
    /\ pc \in {"parse_args", "usage_error"} =>
         /\ \A i \in 1..Len(AcceptedArgv) :
              AcceptedArgv[i].flag \in {"disk", "backend"}
                 => CountEq(AcceptedArgv[i].token) = 1
         /\ pc = "usage_error" =>
              /\ argv[Len(argv)].flag \in {"disk", "backend"}
              /\ CountEq(argv[Len(argv)].token) /= 1
         /\ ListMatchesArgv(args.disk_storage_mappings, DiskArgv, "disk_id")
         /\ ListMatchesArgv(args.storage_backend_mappings, BackendArgv, "source")

\* two accepted occurrences, then a token with two '=' ends the parse
C4_Witness ==
    /\ pc = "usage_error"
    /\ Len(argv) = 3
    /\ argv[1].flag = "disk" /\ argv[2].flag = "backend" /\ argv[3].flag = "disk"
    /\ CountEq(argv[3].token) = 2
    /\ Len(args.disk_storage_mappings.v) = 1
    /\ Len(args.storage_backend_mappings.v) = 1

\* C5: for a token with exactly one '=', the disk splitter yields exactly
\* {disk_id, destination} and the backend splitter exactly {source,
\* destination}, the values being the text left and right of the '=' without
\* the quote characters at their ends and otherwise unchanged.
C5_SplitterYieldsStrippedSides ==
    pc = "split_done" /\ CountEq(split_out.arg) = 1 =>
        /\ ~split_out.disk.raised
        /\ IsEntryOf(split_out.disk.value, "disk_id", split_out.arg)
        /\ ~split_out.backend.raised
        /\ IsEntryOf(split_out.backend.value, "source", split_out.arg)

\* a token quoted at both ends
C5_Witness ==
    /\ pc = "split_done"
    /\ split_out.arg = <<"'", "a", "=", "b", "\"">>
    /\ split_out.disk.value = [disk_id |-> <<"a">>, destination |-> <<"b">>]
    /\ split_out.backend.value = [source |-> <<"a">>, destination |-> <<"b">>]

\* an attribute that is neither None nor empty
Given(x) == x /= None /\ x /= Str(<<>>) /\ x /= List(<<>>)

\* C6: the dict built from args has exactly the keys whose attribute is
\* truthy, each holding the attribute unchanged; no key holds a null or an
\* empty value, and with nothing given the dict is empty.
C6_DictHoldsExactlyTruthyAttributes ==
    pc \in {"have_mappings", "mappings_done"} /\ args /= Unset =>
        /\ storage_mappings.tag = "dict"
        /\ DOMAIN storage_mappings.v =
              {k \in {"default", "disk_mappings", "backend_mappings"} :
                 CASE k = "default" -> Given(args.default_storage_backend)
                   [] k = "disk_mappings" -> Given(args.disk_storage_mappings)
                   [] OTHER -> Given(args.storage_backend_mappings)}
        /\ "default" \in DOMAIN storage_mappings.v =>
              storage_mappings.v["default"] = args.default_storage_backend
        /\ "disk_mappings" \in DOMAIN storage_mappings.v =>
              storage_mappings.v["disk_mappings"] = args.disk_storage_mappings
        /\ "backend_mappings" \in DOMAIN storage_mappings.v =>
              storage_mappings.v["backend_mappings"] = args.storage_backend_mappings
        /\ \A k \in DOMAIN storage_mappings.v : Given(storage_mappings.v[k])

\* an empty default and no disk mapping on the command line, one backend
\* mapping: the dict holds 'backend_mappings' alone
C6_Witness ==
    /\ pc = "have_mappings"
    /\ args /= Unset
    /\ args.default_storage_backend = Str(<<>>)
    /\ args.disk_storage_mappings = None
    /\ args.storage_backend_mappings /= None
    /\ DOMAIN storage_mappings.v = {"backend_mappings"}

\* the last index of lst whose entry has k under keyname
LastWith(lst, keyname, k) ==
    CHOOSE i \in 1..Len(lst) :
        /\ lst[i][keyname] = k
        /\ \A j \in (i + 1)..Len(lst) : lst[j][keyname] /= k

\* d maps the key of every entry of lst to the destination of the last entry
\* with that key, and has no other key
IsLastWins(d, lst, keyname) ==
    /\ d.tag = "dict"
    /\ DOMAIN d.v = {lst[i][keyname] : i \in 1..Len(lst)}
    /\ \A k \in DOMAIN d.v : d.v[k] = lst[LastWith(lst, keyname, k)].destination

\* d maps the key of every entry of lst to that entry's destination, and has
\* no other key
IsEveryEntry(d, lst, keyname) ==
    /\ d.tag = "dict"
    /\ DOMAIN d.v = {lst[i][keyname] : i \in 1..Len(lst)}
    /\ \A i \in 1..Len(lst) : d.v[lst[i][keyname]] = lst[i].destination

\* the list a namespace attribute or a dict key stands for
ListOf(x) == IF x.tag = "list" THEN x.v ELSE <<>>

\* C7: parse_storage_mappings returns (None, {}, {}) for a null input; for any
\* other input it does not raise on a missing key (a missing list gives an
\* empty dict, a missing default gives None), and a key that several entries
\* of a list carry maps to the destination of the last of them.
C7_ParseToleratesMissingAndLastWins ==
    pc = "mappings_done" =>
        /\ ~parsed.raised
        /\ IF storage_mappings = None
           THEN parsed.value = <<None, Dict(EmptyDict), Dict(EmptyDict)>>
           ELSE /\ parsed.value[1] =
                      IF "default" \in DOMAIN storage_mappings.v
                      THEN storage_mappings.v["default"]
                      ELSE None
                /\ IsLastWins(parsed.value[2],
                              IF "backend_mappings" \in DOMAIN storage_mappings.v
                              THEN storage_mappings.v["backend_mappings"].v
                              ELSE <<>>,
                              "source")
                /\ IsLastWins(parsed.value[3],
                              IF "disk_mappings" \in DOMAIN storage_mappings.v
                              THEN storage_mappings.v["disk_mappings"].v
                              ELSE <<>>,
                              "disk_id")

\* an API dict with 'backend_mappings' alone, its source repeated
C7_Witness ==
    /\ pc = "mappings_done"
    /\ args = Unset
    /\ storage_mappings /= None
    /\ DOMAIN storage_mappings.v = {"backend_mappings"}
    /\ storage_mappings.v["backend_mappings"].v =
          << [source |-> <<"a">>, destination |-> <<"b">>],
             [source |-> <<"a">>, destination |-> <<"a">>] >>
    /\ parsed.value = <<None, Dict([k \in {<<"a">>} |-> <<"a">>]), Dict(EmptyDict)>>

\* C1 as stated: the round trip returns the default given in args (None when
\* none was given) and maps the key of every given entry, repeated keys
\* included, to that entry's destination.
C1_RoundTripEveryEntry ==
    pc = "mappings_done" /\ args /= Unset =>
        /\ ~parsed.raised
        /\ parsed.value[1] = args.default_storage_backend
        /\ IsEveryEntry(parsed.value[2], ListOf(args.storage_backend_mappings), "source")
        /\ IsEveryEntry(parsed.value[3], ListOf(args.disk_storage_mappings), "disk_id")

\* C1, amended: the round trip returns the default given in args when it is a
\* non-empty string and None otherwise, and maps each given source / disk_id
\* to the destination of the last given entry that carries it, with no other
\* keys.
C1_RoundTripLastWins ==
    pc = "mappings_done" /\ args /= Unset =>
        /\ ~parsed.raised
        /\ parsed.value[1] =
              IF Given(args.default_storage_backend)
              THEN args.default_storage_backend
              ELSE None
        /\ IsLastWins(parsed.value[2], ListOf(args.storage_backend_mappings), "source")
        /\ IsLastWins(parsed.value[3], ListOf(args.disk_storage_mappings), "disk_id")

\* a command line with a default and a disk_id given twice
C1_Witness ==
    /\ pc = "mappings_done"
    /\ Len(argv) = 3
    /\ args.default_storage_backend = Str(<<"b">>)
    /\ args.disk_storage_mappings =
          List(<< [disk_id |-> <<"a">>, destination |-> <<"a">>],
                  [disk_id |-> <<"a">>, destination |-> <<"b">>] >>)
    /\ parsed.value =
          <<Str(<<"b">>), Dict(EmptyDict), Dict([k \in {<<"a">>} |-> <<"b">>])>>

\* C2 as stated: whenever raw text was obtained and is valid JSON the call
\* returns the parsed value, whatever error_on_no_value is and whatever the
\* value ({}, [], 0, false, "" and null included); the 'No ... parameter was
\* provided' error is raised only when no raw text was obtained.
C2_ValidJsonIsReturned ==
    pc = "gov_done" =>
        /\ gov.raw_value /= None /\ gov.raw_value.v \in JsonTexts =>
              gov.outcome = Return(json_loads(gov.raw_value.v).value)
        /\ gov.outcome = Raise("ValueError", "No parameter was provided") =>
              gov.raw_value = None

\* C3: with neither flag set the call raises a ValueError when
\* error_on_no_value is true and returns None when it is false; no JSON is
\* parsed and no file is read.
C3_NeitherFlagSet ==
    pc = "gov_done" /\ gov.raw_arg = None /\ gov.file_arg = None =>
        /\ gov.outcome =
              IF gov.error_on_no_value
              THEN Raise("ValueError", "No parameter was provided")
              ELSE Return(None)
        /\ gov.loads_calls = 0
        /\ gov.raw_value = None
        /\ fh = Unset

\* neither flag, error_on_no_value true: the ValueError
C3_Witness ==
    /\ pc = "gov_done"
    /\ gov.raw_arg = None
    /\ gov.file_arg = None
    /\ gov.error_on_no_value
    /\ gov.outcome.raised
    /\ gov.outcome.error = "ValueError"

\* the raw-value argument is absent or empty
NoRawArg == gov.raw_arg = None \/ gov.raw_arg = Str(<<>>)

\* C10 as stated: after any call of get_option_value_from_args, whatever raw
\* value and file the args hold and however the call ends, the file object is
\* closed, and it is read only when the raw value is absent or empty; after any
\* call of compose_user_scripts no script file is open.
C10_FileAlwaysClosed ==
    /\ pc = "gov_done" /\ fh /= Unset =>
          /\ fh.closed
          /\ fh.reads > 0 => NoRawArg
    /\ pc = "cus_done" => open_files = {}

\* C10, amended: after any call of get_option_value_from_args the file object
\* is closed exactly when the raw value is absent or empty, the case in which
\* it is read (once); given with a non-empty raw value it is neither read nor
\* closed. After any call of compose_user_scripts no script file is open.
C10_FileClosedWhenRead ==
    /\ pc = "gov_done" /\ fh /= Unset =>
          /\ fh.closed <=> NoRawArg
          /\ fh.reads = IF NoRawArg THEN 1 ELSE 0
    /\ pc = "cus_done" => open_files = {}

\* an empty raw value and a file holding bad JSON: read, closed, raised
C10_Witness ==
    /\ pc = "gov_done"
    /\ gov.raw_arg = Str(<<>>)
    /\ fh /= Unset
    /\ fh.content = Str(<<"{">>)
    /\ fh.reads = 1
    /\ fh.closed
    /\ gov.outcome = Raise("ValueError", "Error while parsing")

\* the tokens of both arguments in the order the loops visit them
TokensOf(x) == IF x.tag = "list" THEN x.v ELSE <<>>
Visited ==
    [i \in 1..Len(TokensOf(cus.global_arg)) |->
        [global |-> TRUE, token |-> TokensOf(cus.global_arg)[i]]]
    \o
    [i \in 1..Len(TokensOf(cus.instance_arg)) |->
        [global |-> FALSE, token |-> TokensOf(cus.instance_arg)[i]]]

HasEq(t) == CountEq(t) > 0
BadOS(e) == e.global /\ LeftOfEq(e.token) \notin OS_LIST
BadPath(e) == RightOfEq(e.token) \notin DOMAIN Files
Offending(e) == HasEq(e.token) /\ (BadOS(e) \/ BadPath(e))

\* the paths of the tokens with an '=' among the first n visited
RECURSIVE PathsUpTo(_)
PathsUpTo(n) ==
    IF n = 0 THEN <<>>
    ELSE IF HasEq(Visited[n].token)
         THEN Append(PathsUpTo(n - 1), RightOfEq(Visited[n].token))
         ELSE PathsUpTo(n - 1)

\* tokens of lst with an '=' and their keys
KeyedIdx(lst) == {i \in 1..Len(lst) : HasEq(lst[i])}
LastKeyed(lst, k) ==
    CHOOSE i \in KeyedIdx(lst) :
        /\ LeftOfEq(lst[i]) = k
        /\ \A j \in KeyedIdx(lst) : j > i => LeftOfEq(lst[j]) /= k

\* d holds, for the key of every token with an '=', the content of the file
\* the last such token names
IsScriptDict(d, lst) ==
    /\ DOMAIN d = {LeftOfEq(lst[i]) : i \in KeyedIdx(lst)}
    /\ \A k \in DOMAIN d : d[k] = Files[RightOfEq(lst[LastKeyed(lst, k)])]

\* C8: whenever compose_user_scripts returns, the payload has exactly the keys
\* 'global' and 'instances'; every key of 'global' is a recognized OS; a token
\* without '=' contributes nothing; a token is split at its first '=' only;
\* each value is the content of the file named by the last token with that
\* key; null arguments count as empty.
C8_ReturnedPayload ==
    pc = "cus_done" /\ ~cus.outcome.raised =>
        /\ DOMAIN cus.outcome.value = {"global", "instances"}
        /\ DOMAIN cus.outcome.value.global \subseteq OS_LIST
        /\ IsScriptDict(cus.outcome.value.global, TokensOf(cus.global_arg))
        /\ IsScriptDict(cus.outcome.value.instances, TokensOf(cus.instance_arg))

\* a key given twice around a token without '=', the last path holding '='
C8_Witness ==
    /\ pc = "cus_done"
    /\ ~cus.outcome.raised
    /\ cus.global_arg = List(<<Linux \o <<"=">> \o PathF, Linux, Linux \o <<"=">> \o PathEq>>)
    /\ cus.instance_arg = None
    /\ cus.outcome.value = [global |-> [k \in {Linux} |-> <<"C">>], instances |-> EmptyDict]

\* C9: compose_user_scripts raises a ValueError exactly when some token with
\* an '=' is offending (a global token with an unrecognized OS, or any token
\* whose path is no file); the error is that of the first offending token,
\* global tokens first, the OS check before the file check; nothing is
\* returned and no file of a later token is opened.
C9_FirstOffendingTokenRaises ==
    pc = "cus_done" =>
        LET bad == {i \in 1..Len(Visited) : Offending(Visited[i])} IN
        IF bad = {}
        THEN /\ ~cus.outcome.raised
             /\ opened = PathsUpTo(Len(Visited))
        ELSE LET first == CHOOSE i \in bad : \A j \in bad : i <= j
                 e == Visited[first]
             IN /\ cus.outcome =
                     IF BadOS(e)
                     THEN Raise("ValueError", <<"Invalid OS", LeftOfEq(e.token)>>)
                     ELSE Raise("ValueError", <<"Could not find", RightOfEq(e.token)>>)
                /\ opened = PathsUpTo(first - 1)

\* an instance token whose key is no OS and whose path is no file, after a
\* good global token and before a good instance token
C9_Witness ==
    /\ pc = "cus_done"
    /\ cus.global_arg = List(<<Linux \o <<"=">> \o PathF>>)
    /\ cus.instance_arg =
          List(<<Bogus \o <<"=">> \o PathMissing, Linux \o <<"=">> \o PathG>>)
    /\ cus.outcome = Raise("ValueError", <<"Could not find", PathMissing>>)
    /\ opened = <<PathF>>

====
